---- MODULE Spec2Model ----
(***************************************************************************)
(* Model of ssh_reverse.py: the SSHReverse session manager (create /       *)
(* remove over the client stack), the remote port binder, the tunnel       *)
(* acceptor thread of every session and the per-channel relay (handler).   *)
(*                                                                         *)
(* Every create() call makes one SSHClient; clients, the transports they   *)
(* open and the acceptor threads they start are numbered by that call.     *)
(* Threads interleave at the granularity of the actions below.             *)
(***************************************************************************)
EXTENDS Integers, Sequences, FiniteSets, TLC

\* ---------------------------------------------------------------- bounds
MaxPort == 2          \* ports are 1..MaxPort
MaxSessions == 2      \* create() calls (SSHClient objects) over one run
MaxRelays == 2        \* handler threads over one run
MaxLen == 2           \* bytes each side of a relay produces
ChunkSize == 2        \* recv(1024), scaled to the model

Ports == 1..MaxPort
MaxCreates == MaxSessions + 2   \* create() calls over one run of SpecReuse
Sessions == 1..MaxCreates
Callers == {"main"}   \* threads calling create() / remove()
Relays == 1..MaxRelays
MaxProbes == MaxPort + 1
None == 0

VARIABLES
    \* SSHReverse fields
    bind_port_min, bind_port_max, bind_port_try, bind_port_now,
    stop, _client_list, _client_curr,
    \* paramiko: clients made, each client's _transport, each transport's state
    nclients, ctrans, transport,
    \* threads calling create()/remove(): position and locals of create
    cpc, client, daemon, btrans, port_try, unavail, timedOut, result,
    \* acceptor threads (_reverse_forward_tunnel): position and locals
    apc, atrans, chan, event,
    \* relay threads (handler): position, select's ready list, unread input
    nchans, rsess, rpc, rset, chanIn, sockIn, chanEof, sockEof,
    \* observation variables
    probes, tested, stack0, popCount, cbCount, peerPath,
    chanMade, sockMade, chanRead, sockRead, chanOut, sockOut, chanClosed, sockClosed

mgrVars == <<bind_port_min, bind_port_max, bind_port_try, bind_port_now,
             stop, _client_list, _client_curr>>
cliVars == <<nclients, ctrans, transport>>
callVars == <<cpc, client, daemon, btrans, port_try, unavail, timedOut, result>>
accVars == <<apc, atrans, chan, event>>
relVars == <<nchans, rsess, rpc, rset, chanIn, sockIn, chanEof, sockEof>>
histVars == <<probes, tested, stack0, popCount, cbCount, peerPath>>
relHist == <<chanMade, sockMade, chanRead, sockRead, chanOut, sockOut,
             chanClosed, sockClosed>>
vars == <<mgrVars, cliVars, callVars, accVars, relVars, histVars, relHist>>

\* ------------------------------------------------------------- helpers
Range(s) == {s[i] : i \in 1..Len(s)}
Min(a, b) == IF a < b THEN a ELSE b
Take(s, n) == SubSeq(s, 1, n)
Drop(s, n) == SubSeq(s, n + 1, Len(s))

\* ------------------------------------------------------- client stack
\* client_count property
client_count == Len(_client_list)

\* client property (getter): the current client, or None
client_get == IF _client_curr = -1 THEN None ELSE _client_list[_client_curr + 1]

\* Transport.is_alive()
is_alive(t) == transport[t] = "alive"

\* ---------------------------------------------------------------- Init
\* SSHReverse.__init__ with a (min, max, try) triple, min <= try <= max
Init ==
    /\ bind_port_min \in Ports
    /\ bind_port_max \in Ports
    /\ bind_port_try \in Ports
    /\ bind_port_min <= bind_port_try
    /\ bind_port_try <= bind_port_max
    /\ bind_port_now = None
    /\ stop = FALSE
    /\ _client_list = <<>>
    /\ _client_curr = -1
    /\ nclients = 0
    /\ ctrans = [s \in Sessions |-> None]
    /\ transport = [s \in Sessions |-> "none"]
    /\ cpc = [c \in Callers |-> "idle"]
    /\ client = [c \in Callers |-> None]
    /\ daemon = [c \in Callers |-> TRUE]
    /\ btrans = [c \in Callers |-> None]
    /\ port_try = [c \in Callers |-> None]
    /\ unavail = [c \in Callers |-> {}]
    /\ timedOut = [c \in Callers |-> FALSE]
    /\ result = [c \in Callers |-> "none"]
    /\ apc = [s \in Sessions |-> "none"]
    /\ atrans = [s \in Sessions |-> None]
    /\ chan = [s \in Sessions |-> None]
    /\ event = [s \in Sessions |-> "none"]
    /\ nchans = 0
    /\ rsess = [r \in Relays |-> None]
    /\ rpc = [r \in Relays |-> "none"]
    /\ rset = [r \in Relays |-> {}]
    /\ chanIn = [r \in Relays |-> <<>>]
    /\ sockIn = [r \in Relays |-> <<>>]
    /\ chanEof = [r \in Relays |-> FALSE]
    /\ sockEof = [r \in Relays |-> FALSE]
    /\ probes = [c \in Callers |-> <<>>]
    /\ tested = [c \in Callers |-> FALSE]
    /\ stack0 = [c \in Callers |-> <<>>]
    /\ popCount = [s \in Sessions |-> 0]
    /\ cbCount = [s \in Sessions |-> 0]
    /\ peerPath = [s \in Sessions |-> FALSE]
    /\ chanMade = [r \in Relays |-> 0]
    /\ sockMade = [r \in Relays |-> 0]
    /\ chanRead = [r \in Relays |-> <<>>]
    /\ sockRead = [r \in Relays |-> <<>>]
    /\ chanOut = [r \in Relays |-> <<>>]
    /\ sockOut = [r \in Relays |-> <<>>]
    /\ chanClosed = [r \in Relays |-> 0]
    /\ sockClosed = [r \in Relays |-> 0]

\* ------------------------------------------------- remote port binder
\* the candidate after a denied request (the SSHException branch of the loop)
NextPortTry(p) ==
    LET p1 == IF p < bind_port_max THEN p + 1 ELSE p
    IN IF p1 = bind_port_max THEN bind_port_min ELSE p1

\* request_port_forward raises SSHException: the server denies the port, or
\* the transport is no longer active
Denied(c, p) == p \in unavail[c] \/ ~is_alive(btrans[c])

\* ------------------------------------------------------------- create
Failed == {"connect_failed", "unreachable", "exhausted", "bind_error"}

\* create(): a new SSHClient is made and pushed by the client setter; n
\* bounds the create() calls of a run
CreatePushUpTo(c, n) ==
    /\ cpc[c] = "idle"
    /\ nclients < n
    /\ \E d \in BOOLEAN, u \in SUBSET (bind_port_min..bind_port_max) :
          /\ daemon' = [daemon EXCEPT ![c] = d]
          /\ unavail' = [unavail EXCEPT ![c] = u]
    /\ nclients' = nclients + 1
    /\ client' = [client EXCEPT ![c] = nclients + 1]
    /\ _client_list' = Append(_client_list, nclients + 1)
    /\ _client_curr' = _client_curr + 1
    /\ cpc' = [cpc EXCEPT ![c] = "connect"]
    /\ result' = [result EXCEPT ![c] = "running"]
    /\ timedOut' = [timedOut EXCEPT ![c] = FALSE]
    /\ probes' = [probes EXCEPT ![c] = <<>>]
    /\ tested' = [tested EXCEPT ![c] = FALSE]
    /\ stack0' = [stack0 EXCEPT ![c] = _client_list]
    /\ UNCHANGED <<bind_port_min, bind_port_max, bind_port_try, bind_port_now, stop,
                   ctrans, transport, btrans, port_try, accVars, relVars,
                   popCount, cbCount, peerPath, relHist>>

CreatePush(c) == CreatePushUpTo(c, MaxSessions)

\* CreatePush in the two statements of the client setter, first
\* self._client_list.append(client) ...
SetterAppend(c) ==
    /\ cpc[c] = "idle"
    /\ nclients < MaxSessions
    /\ \E d \in BOOLEAN, u \in SUBSET (bind_port_min..bind_port_max) :
          /\ daemon' = [daemon EXCEPT ![c] = d]
          /\ unavail' = [unavail EXCEPT ![c] = u]
    /\ nclients' = nclients + 1
    /\ client' = [client EXCEPT ![c] = nclients + 1]
    /\ _client_list' = Append(_client_list, nclients + 1)
    /\ cpc' = [cpc EXCEPT ![c] = "push"]
    /\ result' = [result EXCEPT ![c] = "running"]
    /\ timedOut' = [timedOut EXCEPT ![c] = FALSE]
    /\ probes' = [probes EXCEPT ![c] = <<>>]
    /\ tested' = [tested EXCEPT ![c] = FALSE]
    /\ stack0' = [stack0 EXCEPT ![c] = _client_list]
    /\ UNCHANGED <<bind_port_min, bind_port_max, bind_port_try, bind_port_now, stop,
                   _client_curr, ctrans, transport, btrans, port_try, accVars,
                   relVars, popCount, cbCount, peerPath, relHist>>

\* ... then self._client_curr += 1
SetterIncr(c) ==
    /\ cpc[c] = "push"
    /\ _client_curr' = _client_curr + 1
    /\ cpc' = [cpc EXCEPT ![c] = "connect"]
    /\ UNCHANGED <<bind_port_min, bind_port_max, bind_port_try, bind_port_now, stop,
                   _client_list, cliVars, client, daemon, btrans, port_try, unavail,
                   timedOut, result, accVars, relVars, histVars, relHist>>

\* create(): _connect_to_server connects self.client (the top of the stack)
\* with a new transport, or re-raises what connect raised
CreateConnect(c) ==
    /\ cpc[c] = "connect"
    /\ \/ /\ client_get # None
          /\ ctrans' = [ctrans EXCEPT ![client_get] = client[c]]
          /\ transport' = [transport EXCEPT ![client[c]] = "alive"]
          /\ cpc' = [cpc EXCEPT ![c] = "test"]
          /\ UNCHANGED result
       \/ /\ cpc' = [cpc EXCEPT ![c] = "idle"]
          /\ result' = [result EXCEPT ![c] = "connect_failed"]
          /\ UNCHANGED <<ctrans, transport>>
    /\ UNCHANGED <<mgrVars, nclients, client, daemon, btrans, port_try, unavail,
                   timedOut, accVars, relVars, histVars, relHist>>

\* CreateTest with the exception of the destination check swallowed: the
\* failure is logged and create goes on to the binder
CreateTestSwallow(c) ==
    /\ cpc[c] = "test"
    /\ cpc' = [cpc EXCEPT ![c] = "bind"]
    /\ btrans' = [btrans EXCEPT ![c] = ctrans[client[c]]]
    /\ port_try' = [port_try EXCEPT ![c] = bind_port_try]
    /\ \/ tested' = [tested EXCEPT ![c] = TRUE]
       \/ UNCHANGED tested
    /\ UNCHANGED <<mgrVars, cliVars, client, daemon, unavail, timedOut, result,
                   accVars, relVars, probes, stack0, popCount, cbCount,
                   peerPath, relHist>>

\* create(): _test_remote_connectable opens and closes a socket to the
\* destination, or re-raises; then client.get_transport() is handed to the
\* binder, which starts at bind_port_try
CreateTest(c) ==
    /\ cpc[c] = "test"
    /\ \/ /\ cpc' = [cpc EXCEPT ![c] = "bind"]
          /\ btrans' = [btrans EXCEPT ![c] = ctrans[client[c]]]
          /\ port_try' = [port_try EXCEPT ![c] = bind_port_try]
          /\ tested' = [tested EXCEPT ![c] = TRUE]
          /\ UNCHANGED result
       \/ /\ cpc' = [cpc EXCEPT ![c] = "idle"]
          /\ result' = [result EXCEPT ![c] = "unreachable"]
          /\ UNCHANGED <<btrans, port_try, tested>>
    /\ UNCHANGED <<mgrVars, cliVars, client, daemon, unavail, timedOut,
                   accVars, relVars, probes, stack0, popCount, cbCount,
                   peerPath, relHist>>

\* _try_bind_server_port: one pass of the while loop, one
\* transport.request_port_forward('', port_try)
BindRequest(c) ==
    /\ cpc[c] = "bind"
    /\ Len(probes[c]) < MaxProbes
    /\ \/ \* accepted: bind_port_now is set, the binder returns
          /\ btrans[c] # None
          /\ ~Denied(c, port_try[c])
          /\ probes' = [probes EXCEPT ![c] = Append(@, port_try[c])]
          /\ bind_port_now' = port_try[c]
          /\ cpc' = [cpc EXCEPT ![c] = "start"]
          /\ UNCHANGED <<port_try, result>>
       \/ \* paramiko.SSHException: next candidate, or the range is used up
          /\ btrans[c] # None
          /\ Denied(c, port_try[c])
          /\ probes' = [probes EXCEPT ![c] = Append(@, port_try[c])]
          /\ IF NextPortTry(port_try[c]) = bind_port_try
             THEN /\ cpc' = [cpc EXCEPT ![c] = "idle"]
                  /\ result' = [result EXCEPT ![c] = "exhausted"]
                  /\ UNCHANGED port_try
             ELSE /\ port_try' = [port_try EXCEPT ![c] = NextPortTry(@)]
                  /\ UNCHANGED <<cpc, result>>
          /\ UNCHANGED bind_port_now
       \/ \* any other exception (a transport error on the request, or no
          \* transport at all) is re-raised
          /\ probes' = [probes EXCEPT ![c] =
                           IF btrans[c] # None THEN Append(@, port_try[c]) ELSE @]
          /\ cpc' = [cpc EXCEPT ![c] = "idle"]
          /\ result' = [result EXCEPT ![c] = "bind_error"]
          /\ UNCHANGED <<port_try, bind_port_now>>
    /\ UNCHANGED <<bind_port_min, bind_port_max, bind_port_try, stop, _client_list,
                   _client_curr, cliVars, client, daemon, btrans, unavail, timedOut,
                   accVars, relVars, tested, stack0, popCount, cbCount,
                   peerPath, relHist>>

\* create(): the acceptor thread is made on client.get_transport(),
\* self.stop is cleared and the thread is started; if that raises, self.stop
\* is set and the exception is re-raised
CreateStart(c) ==
    /\ cpc[c] = "start"
    /\ \/ /\ stop' = FALSE
          /\ apc' = [apc EXCEPT ![client[c]] = "start"]
          /\ atrans' = [atrans EXCEPT ![client[c]] = ctrans[client[c]]]
          /\ event' = [event EXCEPT ![client[c]] =
                          IF daemon[c] THEN "clear" ELSE "none"]
          /\ cpc' = [cpc EXCEPT ![c] = "wait"]
          /\ UNCHANGED result
       \/ /\ stop' = TRUE
          /\ cpc' = [cpc EXCEPT ![c] = "idle"]
          /\ result' = [result EXCEPT ![c] = "start_failed"]
          /\ UNCHANGED <<apc, atrans, event>>
    /\ UNCHANGED <<bind_port_min, bind_port_max, bind_port_try, bind_port_now,
                   _client_list, _client_curr, cliVars, client, daemon, btrans,
                   port_try, unavail, timedOut, chan, relVars, histVars, relHist>>

\* event.wait(timeout=3): the three seconds pass
CreateWaitTimeout(c) ==
    /\ cpc[c] = "wait"
    /\ daemon[c]
    /\ ~timedOut[c]
    /\ timedOut' = [timedOut EXCEPT ![c] = TRUE]
    /\ UNCHANGED <<mgrVars, cliVars, cpc, client, daemon, btrans, port_try, unavail,
                   result, accVars, relVars, histVars, relHist>>

\* CreateReturn that returns as soon as the thread is started
CreateReturnEarly(c) ==
    /\ cpc[c] = "wait"
    /\ cpc' = [cpc EXCEPT ![c] = "idle"]
    /\ result' = [result EXCEPT ![c] = "ok"]
    /\ UNCHANGED <<mgrVars, cliVars, client, daemon, btrans, port_try, unavail,
                   timedOut, accVars, relVars, histVars, relHist>>

\* create() returns: after event.wait (daemon) or thr.join (not daemon)
CreateReturn(c) ==
    /\ cpc[c] = "wait"
    /\ IF daemon[c]
       THEN event[client[c]] = "set" \/ timedOut[c]
       ELSE apc[client[c]] = "stopped"
    /\ cpc' = [cpc EXCEPT ![c] = "idle"]
    /\ result' = [result EXCEPT ![c] = "ok"]
    /\ UNCHANGED <<mgrVars, cliVars, client, daemon, btrans, port_try, unavail,
                   timedOut, accVars, relVars, histVars, relHist>>

\* create(): KeyboardInterrupt while waiting sets self.stop and re-raises
CreateInterrupt(c) ==
    /\ cpc[c] = "wait"
    /\ stop' = TRUE
    /\ cpc' = [cpc EXCEPT ![c] = "idle"]
    /\ result' = [result EXCEPT ![c] = "interrupted"]
    /\ UNCHANGED <<bind_port_min, bind_port_max, bind_port_try, bind_port_now,
                   _client_list, _client_curr, cliVars, client, daemon, btrans,
                   port_try, unavail, timedOut, accVars, relVars, histVars, relHist>>

\* ------------------------------------------------------------- remove
\* remove(): the stack is not empty but client_remove() finds _client_curr
\* at -1 and returns None, so client.close() raises AttributeError
RemoveRaises == client_count # 0 /\ _client_curr = -1

\* RemoveBody without the early return on an empty stack and without the
\* guard of client_remove: the index is decremented whatever the stack holds
RemoveBodyUnguarded ==
    /\ stop' = TRUE
    /\ _client_curr' = _client_curr - 1
    /\ IF client_count = 0
       THEN UNCHANGED <<_client_list, ctrans, transport, popCount>>
       ELSE LET top == _client_list[Len(_client_list)]
            IN /\ _client_list' = Take(_client_list, Len(_client_list) - 1)
               /\ popCount' = [popCount EXCEPT ![top] = @ + 1]
               /\ ctrans' = [ctrans EXCEPT ![top] = None]
               /\ transport' = IF ctrans[top] = None THEN transport
                               ELSE [transport EXCEPT ![ctrans[top]] = "closed"]
    /\ UNCHANGED <<bind_port_min, bind_port_max, bind_port_try, bind_port_now,
                   nclients>>

\* remove(): self.stop = True; if the stack is empty return; else
\* client_remove() pops the last client and client.close() closes its
\* transport.  Run by a caller thread and by an acceptor thread alike.
RemoveBody ==
    /\ stop' = TRUE
    /\ IF client_count = 0 \/ RemoveRaises
       THEN UNCHANGED <<_client_list, _client_curr, ctrans, transport, popCount>>
       ELSE LET top == _client_list[Len(_client_list)]
            IN /\ _client_curr' = _client_curr - 1
               /\ _client_list' = Take(_client_list, Len(_client_list) - 1)
               /\ popCount' = [popCount EXCEPT ![top] = @ + 1]
               /\ ctrans' = [ctrans EXCEPT ![top] = None]
               /\ transport' = IF ctrans[top] = None THEN transport
                               ELSE [transport EXCEPT ![ctrans[top]] = "closed"]
    /\ UNCHANGED <<bind_port_min, bind_port_max, bind_port_try, bind_port_now,
                   nclients>>

\* remove() called by the user of the manager
Remove(c) ==
    /\ cpc[c] = "idle"
    /\ RemoveBody
    /\ result' = [result EXCEPT ![c] =
                     IF client_count = 0 THEN "remove_empty"
                     ELSE IF RemoveRaises THEN "remove_raised" ELSE "removed"]
    /\ UNCHANGED <<cpc, client, daemon, btrans, port_try, unavail, timedOut,
                   accVars, relVars, probes, tested, stack0, cbCount, peerPath, relHist>>

\* ----------------------------------------------------- tunnel acceptor
AcceptorRunning(s) == apc[s] \notin {"none", "stopped"}

\* _reverse_forward_tunnel: event.set() when create gave an event
AccStart(s) ==
    /\ apc[s] = "start"
    /\ event' = [event EXCEPT ![s] = IF @ = "clear" THEN "set" ELSE @]
    /\ apc' = [apc EXCEPT ![s] = "accept"]
    /\ UNCHANGED <<mgrVars, cliVars, callVars, atrans, chan, relVars, histVars,
                   relHist>>

\* chan = transport.accept(1000): a channel, or None after the timeout; with
\* no transport the call raises and the thread ends in the except clause
AccAccept(s) ==
    /\ apc[s] = "accept"
    /\ \/ /\ atrans[s] # None
          /\ is_alive(atrans[s])
          /\ nchans < MaxRelays
          /\ nchans' = nchans + 1
          /\ rsess' = [rsess EXCEPT ![nchans + 1] = s]
          /\ chan' = [chan EXCEPT ![s] = nchans + 1]
          /\ apc' = [apc EXCEPT ![s] = "check_stop"]
       \/ /\ atrans[s] # None
          /\ chan' = [chan EXCEPT ![s] = None]
          /\ apc' = [apc EXCEPT ![s] = "check_stop"]
          /\ UNCHANGED <<nchans, rsess>>
       \/ /\ atrans[s] = None
          /\ apc' = [apc EXCEPT ![s] = "stopped"]
          /\ UNCHANGED <<chan, nchans, rsess>>
    /\ UNCHANGED <<mgrVars, cliVars, callVars, atrans, event, rpc, rset, chanIn,
                   sockIn, chanEof, sockEof, histVars, relHist>>

\* if self.stop: break; then the branch on chan is None
AccCheckStop(s) ==
    /\ apc[s] = "check_stop"
    /\ apc' = [apc EXCEPT ![s] = IF stop THEN "stopped"
                                 ELSE IF chan[s] # None THEN "spawn"
                                 ELSE "check_alive"]
    /\ UNCHANGED <<mgrVars, cliVars, callVars, atrans, chan, event, relVars,
                   histVars, relHist>>

\* if not transport.is_alive(): transport.close() ...; else continue
AccCheckAlive(s) ==
    /\ apc[s] = "check_alive"
    /\ IF is_alive(atrans[s])
       THEN /\ apc' = [apc EXCEPT ![s] = "accept"]
            /\ UNCHANGED <<transport, peerPath>>
       ELSE /\ transport' = [transport EXCEPT ![atrans[s]] = "closed"]
            /\ peerPath' = [peerPath EXCEPT ![s] = TRUE]
            /\ apc' = [apc EXCEPT ![s] = "remove"]
    /\ UNCHANGED <<mgrVars, nclients, ctrans, callVars, atrans, chan, event,
                   relVars, probes, tested, stack0, popCount, cbCount, relHist>>

\* ... self.remove(wait=True) ...; an exception of remove ends the thread in
\* the except clause
AccRemove(s) ==
    /\ apc[s] = "remove"
    /\ RemoveBody
    /\ apc' = [apc EXCEPT ![s] = IF RemoveRaises THEN "stopped" ELSE "callback"]
    /\ UNCHANGED <<callVars, atrans, chan, event, relVars, probes, tested, stack0,
                   cbCount, peerPath, relHist>>

\* ... failure_callback(args); return
AccCallback(s) ==
    /\ apc[s] = "callback"
    /\ cbCount' = [cbCount EXCEPT ![s] = @ + 1]
    /\ apc' = [apc EXCEPT ![s] = "stopped"]
    /\ UNCHANGED <<mgrVars, cliVars, callVars, atrans, chan, event, relVars,
                   probes, tested, stack0, popCount, peerPath, relHist>>

\* a handler thread is started for the channel; the loop goes on
AccSpawn(s) ==
    /\ apc[s] = "spawn"
    /\ rpc' = [rpc EXCEPT ![chan[s]] = "connect"]
    /\ apc' = [apc EXCEPT ![s] = "accept"]
    /\ UNCHANGED <<mgrVars, cliVars, callVars, atrans, chan, event, nchans, rsess,
                   rset, chanIn, sockIn, chanEof, sockEof, histVars, relHist>>

\* the SSH server closes or kills the connection of a transport
PeerShutdown(t) ==
    /\ is_alive(t)
    /\ transport' = [transport EXCEPT ![t] = "dead"]
    /\ UNCHANGED <<mgrVars, nclients, ctrans, callVars, accVars, relVars, histVars,
                   relHist>>

\* ----------------------------------------------------- connection relay
RelayRunning(r) == rpc[r] \in {"select", "check", "sock", "chan"}

\* the transport the channel of relay r came from is closed or dead, which
\* closes the channel
ChanTransportDown(r) ==
    /\ rsess[r] # None
    /\ atrans[rsess[r]] # None
    /\ ~is_alive(atrans[rsess[r]])

\* what select.select([sock, chan], [], []) reports readable: unread bytes,
\* or the end of the stream
Readable(r) ==
    (IF sockIn[r] # <<>> \/ sockEof[r] THEN {"sock"} ELSE {})
    \cup (IF chanIn[r] # <<>> \/ chanEof[r] \/ ChanTransportDown(r)
          THEN {"chan"} ELSE {})

\* HandlerConnect whose failed connect also sets the manager's stop flag
HandlerConnectStops(r) ==
    /\ rpc[r] = "connect"
    /\ \/ /\ rpc' = [rpc EXCEPT ![r] = "select"]
          /\ UNCHANGED <<chanClosed, sockClosed, stop>>
       \/ /\ rpc' = [rpc EXCEPT ![r] = "raised"]
          /\ chanClosed' = [chanClosed EXCEPT ![r] = @ + 1]
          /\ sockClosed' = [sockClosed EXCEPT ![r] = @ + 1]
          /\ stop' = TRUE
    /\ UNCHANGED <<bind_port_min, bind_port_max, bind_port_try, bind_port_now,
                   _client_list, _client_curr, cliVars, callVars, accVars, nchans,
                   rsess, rset, chanIn, sockIn, chanEof, sockEof, histVars,
                   chanMade, sockMade, chanRead, sockRead, chanOut, sockOut>>

\* handler: sock.connect((host, port)); on an exception both ends are
\* closed and it is re-raised
HandlerConnect(r) ==
    /\ rpc[r] = "connect"
    /\ \/ /\ rpc' = [rpc EXCEPT ![r] = "select"]
          /\ UNCHANGED <<chanClosed, sockClosed>>
       \/ /\ rpc' = [rpc EXCEPT ![r] = "raised"]
          /\ chanClosed' = [chanClosed EXCEPT ![r] = @ + 1]
          /\ sockClosed' = [sockClosed EXCEPT ![r] = @ + 1]
    /\ UNCHANGED <<mgrVars, cliVars, callVars, accVars, nchans, rsess, rset, chanIn,
                   sockIn, chanEof, sockEof, histVars, chanMade, sockMade, chanRead,
                   sockRead, chanOut, sockOut>>

\* r, w, x = select.select([sock, chan], [], []): blocks until one is readable
HandlerSelect(r) ==
    /\ rpc[r] = "select"
    /\ Readable(r) # {}
    /\ rset' = [rset EXCEPT ![r] = Readable(r)]
    /\ rpc' = [rpc EXCEPT ![r] = "check"]
    /\ UNCHANGED <<mgrVars, cliVars, callVars, accVars, nchans, rsess, chanIn,
                   sockIn, chanEof, sockEof, histVars, relHist>>

\* if self.stop: break
HandlerCheckStop(r) ==
    /\ rpc[r] = "check"
    /\ rpc' = [rpc EXCEPT ![r] = IF stop THEN "close" ELSE "sock"]
    /\ UNCHANGED <<mgrVars, cliVars, callVars, accVars, nchans, rsess, rset, chanIn,
                   sockIn, chanEof, sockEof, histVars, relHist>>

\* if sock in r: data = sock.recv(1024); no data: break; chan.send(data).
\* recv returns 1..ChunkSize of the unread bytes, send takes 1..len(data) of
\* them and its return value is dropped; either call may raise, which ends
\* the thread.
HandlerSock(r) ==
    /\ rpc[r] = "sock"
    /\ \/ /\ "sock" \notin rset[r]
          /\ rpc' = [rpc EXCEPT ![r] = "chan"]
          /\ UNCHANGED <<sockIn, sockRead, chanOut>>
       \/ /\ "sock" \in rset[r]
          /\ sockIn[r] = <<>>
          /\ rpc' = [rpc EXCEPT ![r] = "close"]
          /\ UNCHANGED <<sockIn, sockRead, chanOut>>
       \/ /\ "sock" \in rset[r]
          /\ \E n \in 1..Min(ChunkSize, Len(sockIn[r])) :
                /\ sockIn' = [sockIn EXCEPT ![r] = Drop(@, n)]
                /\ sockRead' = [sockRead EXCEPT ![r] = @ \o Take(sockIn[r], n)]
                /\ \/ \E k \in 1..n :
                         /\ chanOut' = [chanOut EXCEPT ![r] = @ \o Take(sockIn[r], k)]
                         /\ rpc' = [rpc EXCEPT ![r] = "chan"]
                   \/ /\ rpc' = [rpc EXCEPT ![r] = "raised"]
                      /\ UNCHANGED chanOut
       \/ /\ "sock" \in rset[r]
          /\ rpc' = [rpc EXCEPT ![r] = "raised"]
          /\ UNCHANGED <<sockIn, sockRead, chanOut>>
    /\ UNCHANGED <<mgrVars, cliVars, callVars, accVars, nchans, rsess, rset, chanIn,
                   chanEof, sockEof, histVars, chanMade, sockMade, chanRead, sockOut,
                   chanClosed, sockClosed>>

\* if chan in r: data = chan.recv(1024); no data: break; sock.send(data)
HandlerChan(r) ==
    /\ rpc[r] = "chan"
    /\ \/ /\ "chan" \notin rset[r]
          /\ rpc' = [rpc EXCEPT ![r] = "select"]
          /\ UNCHANGED <<chanIn, chanRead, sockOut>>
       \/ /\ "chan" \in rset[r]
          /\ chanIn[r] = <<>>
          /\ rpc' = [rpc EXCEPT ![r] = "close"]
          /\ UNCHANGED <<chanIn, chanRead, sockOut>>
       \/ /\ "chan" \in rset[r]
          /\ \E n \in 1..Min(ChunkSize, Len(chanIn[r])) :
                /\ chanIn' = [chanIn EXCEPT ![r] = Drop(@, n)]
                /\ chanRead' = [chanRead EXCEPT ![r] = @ \o Take(chanIn[r], n)]
                /\ \/ \E k \in 1..n :
                         /\ sockOut' = [sockOut EXCEPT ![r] = @ \o Take(chanIn[r], k)]
                         /\ rpc' = [rpc EXCEPT ![r] = "select"]
                   \/ /\ rpc' = [rpc EXCEPT ![r] = "raised"]
                      /\ UNCHANGED sockOut
       \/ /\ "chan" \in rset[r]
          /\ rpc' = [rpc EXCEPT ![r] = "raised"]
          /\ UNCHANGED <<chanIn, chanRead, sockOut>>
    /\ UNCHANGED <<mgrVars, cliVars, callVars, accVars, nchans, rsess, rset, sockIn,
                   chanEof, sockEof, histVars, chanMade, sockMade, sockRead, chanOut,
                   chanClosed, sockClosed>>

\* after the loop: chan.close(); sock.close()
HandlerClose(r) ==
    /\ rpc[r] = "close"
    /\ chanClosed' = [chanClosed EXCEPT ![r] = @ + 1]
    /\ sockClosed' = [sockClosed EXCEPT ![r] = @ + 1]
    /\ rpc' = [rpc EXCEPT ![r] = "done"]
    /\ UNCHANGED <<mgrVars, cliVars, callVars, accVars, nchans, rsess, rset, chanIn,
                   sockIn, chanEof, sockEof, histVars, chanMade, sockMade, chanRead,
                   sockRead, chanOut, sockOut>>

\* the visitor's side of the channel sends its next byte
ChanData(r) ==
    /\ RelayRunning(r)
    /\ ~chanEof[r]
    /\ chanMade[r] < MaxLen
    /\ chanMade' = [chanMade EXCEPT ![r] = @ + 1]
    /\ chanIn' = [chanIn EXCEPT ![r] = Append(@, chanMade[r] + 1)]
    /\ UNCHANGED <<mgrVars, cliVars, callVars, accVars, nchans, rsess, rpc, rset,
                   sockIn, chanEof, sockEof, histVars, sockMade, chanRead, sockRead,
                   chanOut, sockOut, chanClosed, sockClosed>>

\* the visitor's side of the channel closes it
ChanShut(r) ==
    /\ RelayRunning(r)
    /\ ~chanEof[r]
    /\ chanEof' = [chanEof EXCEPT ![r] = TRUE]
    /\ UNCHANGED <<mgrVars, cliVars, callVars, accVars, nchans, rsess, rpc, rset,
                   chanIn, sockIn, sockEof, histVars, relHist>>

\* the destination sends its next byte
SockData(r) ==
    /\ RelayRunning(r)
    /\ ~sockEof[r]
    /\ sockMade[r] < MaxLen
    /\ sockMade' = [sockMade EXCEPT ![r] = @ + 1]
    /\ sockIn' = [sockIn EXCEPT ![r] = Append(@, sockMade[r] + 1)]
    /\ UNCHANGED <<mgrVars, cliVars, callVars, accVars, nchans, rsess, rpc, rset,
                   chanIn, chanEof, sockEof, histVars, chanMade, chanRead, sockRead,
                   chanOut, sockOut, chanClosed, sockClosed>>

\* the destination closes the connection
SockShut(r) ==
    /\ RelayRunning(r)
    /\ ~sockEof[r]
    /\ sockEof' = [sockEof EXCEPT ![r] = TRUE]
    /\ UNCHANGED <<mgrVars, cliVars, callVars, accVars, nchans, rsess, rpc, rset,
                   chanIn, sockIn, chanEof, histVars, relHist>>

\* ------------------------------------------------------ specifications
CallerNext ==
    \E c \in Callers :
        \/ CreatePush(c)
        \/ CreateConnect(c)
        \/ CreateTest(c)
        \/ BindRequest(c)
        \/ CreateStart(c)
        \/ CreateWaitTimeout(c)
        \/ CreateReturn(c)
        \/ CreateInterrupt(c)
        \/ Remove(c)

AcceptorNext ==
    \E s \in Sessions :
        \/ AccStart(s)
        \/ AccAccept(s)
        \/ AccCheckStop(s)
        \/ AccCheckAlive(s)
        \/ AccRemove(s)
        \/ AccCallback(s)
        \/ AccSpawn(s)
        \/ PeerShutdown(s)

RelayNext ==
    \E r \in Relays :
        \/ HandlerConnect(r)
        \/ HandlerSelect(r)
        \/ HandlerCheckStop(r)
        \/ HandlerSock(r)
        \/ HandlerChan(r)
        \/ HandlerClose(r)
        \/ ChanData(r)
        \/ ChanShut(r)
        \/ SockData(r)
        \/ SockShut(r)

\* The manager with its acceptor threads: create() and remove() called from
\* the caller thread, every acceptor running beside it.
Next == CallerNext \/ AcceptorNext

Spec == Init /\ [][Next]_vars

\* The caller thread alone: create() and remove() called one after the
\* other while no acceptor thread is scheduled.
SpecCaller == Init /\ [][CallerNext]_vars

\* One relay: the state of Spec in which the first create(daemon=True) has
\* bound port 1 and returned and its acceptor has just started the handler
\* thread of the first channel.
InitRelay ==
    /\ bind_port_min = 1
    /\ bind_port_max = MaxPort
    /\ bind_port_try = 1
    /\ bind_port_now = 1
    /\ stop = FALSE
    /\ _client_list = <<1>>
    /\ _client_curr = 0
    /\ nclients = 1
    /\ ctrans = [s \in Sessions |-> IF s = 1 THEN 1 ELSE None]
    /\ transport = [s \in Sessions |-> IF s = 1 THEN "alive" ELSE "none"]
    /\ cpc = [c \in Callers |-> "idle"]
    /\ client = [c \in Callers |-> 1]
    /\ daemon = [c \in Callers |-> TRUE]
    /\ btrans = [c \in Callers |-> 1]
    /\ port_try = [c \in Callers |-> 1]
    /\ unavail = [c \in Callers |-> {}]
    /\ timedOut = [c \in Callers |-> FALSE]
    /\ result = [c \in Callers |-> "ok"]
    /\ apc = [s \in Sessions |-> IF s = 1 THEN "accept" ELSE "none"]
    /\ atrans = [s \in Sessions |-> IF s = 1 THEN 1 ELSE None]
    /\ chan = [s \in Sessions |-> IF s = 1 THEN 1 ELSE None]
    /\ event = [s \in Sessions |-> IF s = 1 THEN "set" ELSE "none"]
    /\ nchans = 1
    /\ rsess = [r \in Relays |-> IF r = 1 THEN 1 ELSE None]
    /\ rpc = [r \in Relays |-> IF r = 1 THEN "connect" ELSE "none"]
    /\ rset = [r \in Relays |-> {}]
    /\ chanIn = [r \in Relays |-> <<>>]
    /\ sockIn = [r \in Relays |-> <<>>]
    /\ chanEof = [r \in Relays |-> FALSE]
    /\ sockEof = [r \in Relays |-> FALSE]
    /\ probes = [c \in Callers |-> <<1>>]
    /\ tested = [c \in Callers |-> TRUE]
    /\ stack0 = [c \in Callers |-> <<>>]
    /\ popCount = [s \in Sessions |-> 0]
    /\ cbCount = [s \in Sessions |-> 0]
    /\ peerPath = [s \in Sessions |-> FALSE]
    /\ chanMade = [r \in Relays |-> 0]
    /\ sockMade = [r \in Relays |-> 0]
    /\ chanRead = [r \in Relays |-> <<>>]
    /\ sockRead = [r \in Relays |-> <<>>]
    /\ chanOut = [r \in Relays |-> <<>>]
    /\ sockOut = [r \in Relays |-> <<>>]
    /\ chanClosed = [r \in Relays |-> 0]
    /\ sockClosed = [r \in Relays |-> 0]

\* the relay's steps and its peers', with remove() called beside them
RelayStep == RelayNext \/ \E c \in Callers : Remove(c)

SpecRelay == InitRelay /\ [][RelayStep]_vars

\* the caller thread inside create() after the push, or calling remove()
CallerRest(c) ==
    \/ CreateConnect(c)
    \/ CreateTest(c)
    \/ BindRequest(c)
    \/ CreateStart(c)
    \/ CreateWaitTimeout(c)
    \/ CreateReturn(c)
    \/ CreateInterrupt(c)
    \/ Remove(c)

\* A manager used for one tunnel: create() is called once, its acceptor
\* thread runs, the server may go away, remove() is called at will.
OneNext ==
    \/ \E c \in Callers : (nclients = 0 /\ CreatePush(c)) \/ CallerRest(c)
    \/ AcceptorNext

SpecOne == Init /\ [][OneNext]_vars

\* the steps of the acceptor thread of session s
AccThread(s) ==
    \/ AccStart(s)
    \/ AccAccept(s)
    \/ AccCheckStop(s)
    \/ AccCheckAlive(s)
    \/ AccRemove(s)
    \/ AccCallback(s)
    \/ AccSpawn(s)

\* The manager and its acceptor threads with a server that never goes away:
\* every teardown is a local one.
LocalNext == CallerNext \/ \E s \in Sessions : AccThread(s)

SpecLocal == Init /\ [][LocalNext]_vars

\* The manager and its acceptor threads with the push of create() taken one
\* statement at a time: an acceptor's remove() may run between the two.
StackNext ==
    \/ \E c \in Callers : SetterAppend(c) \/ SetterIncr(c) \/ CallerRest(c)
    \/ AcceptorNext

SpecStack == Init /\ [][StackNext]_vars

\* the steps of the acceptor thread of session s while no visitor connects:
\* every accept(1000) times out
AccIdle(s) ==
    \/ AccStart(s)
    \/ AccAccept(s) /\ chan'[s] = None
    \/ AccCheckStop(s)
    \/ AccCheckAlive(s)
    \/ AccRemove(s)
    \/ AccCallback(s)

\* a manager constructed with a forward range of one port
InitOnePort == Init /\ bind_port_min = bind_port_max

\* Two tunnels on idle connections, the manager's range being one port:
\* create() is called up to twice and remove() at will, the server may go
\* away, and every acceptor thread keeps being scheduled (its accept returns
\* after a second at most), while the caller may stop calling at any point.
PairNext ==
    \/ \E c \in Callers : (nclients < 2 /\ CreatePush(c)) \/ CallerRest(c)
    \/ \E s \in Sessions : AccIdle(s) \/ PeerShutdown(s)

SpecPairFair ==
    /\ InitOnePort
    /\ [][PairNext]_vars
    /\ \A s \in Sessions : WF_vars(AccIdle(s))

\* Two tunnels up: two create(daemon=True) calls have returned, the second
\* after finding the preferred port taken and after its bounded wait; the
\* first acceptor waits in accept, the second is about to run (a state of
\* Spec).
InitTwo ==
    /\ bind_port_min = 1
    /\ bind_port_max = MaxPort
    /\ bind_port_try = MaxPort
    /\ bind_port_now = 1
    /\ stop = FALSE
    /\ _client_list = <<1, 2>>
    /\ _client_curr = 1
    /\ nclients = 2
    /\ ctrans = [s \in Sessions |-> IF s \in {1, 2} THEN s ELSE None]
    /\ transport = [s \in Sessions |-> IF s \in {1, 2} THEN "alive" ELSE "none"]
    /\ cpc = [c \in Callers |-> "idle"]
    /\ client = [c \in Callers |-> 2]
    /\ daemon = [c \in Callers |-> TRUE]
    /\ btrans = [c \in Callers |-> 2]
    /\ port_try = [c \in Callers |-> 1]
    /\ unavail = [c \in Callers |-> {MaxPort}]
    /\ timedOut = [c \in Callers |-> TRUE]
    /\ result = [c \in Callers |-> "ok"]
    /\ apc = [s \in Sessions |-> IF s = 1 THEN "accept"
                               ELSE IF s = 2 THEN "start" ELSE "none"]
    /\ atrans = [s \in Sessions |-> IF s \in {1, 2} THEN s ELSE None]
    /\ chan = [s \in Sessions |-> None]
    /\ event = [s \in Sessions |-> IF s = 1 THEN "set"
                                 ELSE IF s = 2 THEN "clear" ELSE "none"]
    /\ nchans = 0
    /\ rsess = [r \in Relays |-> None]
    /\ rpc = [r \in Relays |-> "none"]
    /\ rset = [r \in Relays |-> {}]
    /\ chanIn = [r \in Relays |-> <<>>]
    /\ sockIn = [r \in Relays |-> <<>>]
    /\ chanEof = [r \in Relays |-> FALSE]
    /\ sockEof = [r \in Relays |-> FALSE]
    /\ probes = [c \in Callers |-> <<MaxPort, 1>>]
    /\ tested = [c \in Callers |-> TRUE]
    /\ stack0 = [c \in Callers |-> <<1>>]
    /\ popCount = [s \in Sessions |-> 0]
    /\ cbCount = [s \in Sessions |-> 0]
    /\ peerPath = [s \in Sessions |-> FALSE]
    /\ chanMade = [r \in Relays |-> 0]
    /\ sockMade = [r \in Relays |-> 0]
    /\ chanRead = [r \in Relays |-> <<>>]
    /\ sockRead = [r \in Relays |-> <<>>]
    /\ chanOut = [r \in Relays |-> <<>>]
    /\ sockOut = [r \in Relays |-> <<>>]
    /\ chanClosed = [r \in Relays |-> 0]
    /\ sockClosed = [r \in Relays |-> 0]

\* A manager in long use, on idle connections: with two tunnels up,
\* create(daemon=True) is called up to MaxCreates times in all, against a
\* server with every port free and without KeyboardInterrupt, remove() is
\* called at will, and the server may go away.
ReuseNext ==
    \/ \E c \in Callers :
        \/ CreatePushUpTo(c, MaxCreates) /\ daemon'[c] /\ unavail'[c] = {}
        \/ CreateConnect(c)
        \/ CreateTest(c)
        \/ BindRequest(c)
        \/ CreateStart(c)
        \/ CreateWaitTimeout(c)
        \/ CreateReturn(c)
        \/ Remove(c)
    \/ \E s \in Sessions : AccIdle(s) \/ PeerShutdown(s)

SpecReuse == InitTwo /\ [][ReuseNext]_vars

\* the steps of the handler thread of relay r
HandlerThread(r) ==
    \/ HandlerConnect(r)
    \/ HandlerSelect(r)
    \/ HandlerCheckStop(r)
    \/ HandlerSock(r)
    \/ HandlerChan(r)
    \/ HandlerClose(r)

\* One tunnel: create(daemon=True) has returned after its bounded wait, the
\* acceptor thread is about to run (a state of Spec).
InitTunnel ==
    /\ bind_port_min = 1
    /\ bind_port_max = MaxPort
    /\ bind_port_try = 1
    /\ bind_port_now = 1
    /\ stop = FALSE
    /\ _client_list = <<1>>
    /\ _client_curr = 0
    /\ nclients = 1
    /\ ctrans = [s \in Sessions |-> IF s = 1 THEN 1 ELSE None]
    /\ transport = [s \in Sessions |-> IF s = 1 THEN "alive" ELSE "none"]
    /\ cpc = [c \in Callers |-> "idle"]
    /\ client = [c \in Callers |-> 1]
    /\ daemon = [c \in Callers |-> TRUE]
    /\ btrans = [c \in Callers |-> 1]
    /\ port_try = [c \in Callers |-> 1]
    /\ unavail = [c \in Callers |-> {}]
    /\ timedOut = [c \in Callers |-> TRUE]
    /\ result = [c \in Callers |-> "ok"]
    /\ apc = [s \in Sessions |-> IF s = 1 THEN "start" ELSE "none"]
    /\ atrans = [s \in Sessions |-> IF s = 1 THEN 1 ELSE None]
    /\ chan = [s \in Sessions |-> None]
    /\ event = [s \in Sessions |-> IF s = 1 THEN "clear" ELSE "none"]
    /\ nchans = 0
    /\ rsess = [r \in Relays |-> None]
    /\ rpc = [r \in Relays |-> "none"]
    /\ rset = [r \in Relays |-> {}]
    /\ chanIn = [r \in Relays |-> <<>>]
    /\ sockIn = [r \in Relays |-> <<>>]
    /\ chanEof = [r \in Relays |-> FALSE]
    /\ sockEof = [r \in Relays |-> FALSE]
    /\ probes = [c \in Callers |-> <<1>>]
    /\ tested = [c \in Callers |-> TRUE]
    /\ stack0 = [c \in Callers |-> <<>>]
    /\ popCount = [s \in Sessions |-> 0]
    /\ cbCount = [s \in Sessions |-> 0]
    /\ peerPath = [s \in Sessions |-> FALSE]
    /\ chanMade = [r \in Relays |-> 0]
    /\ sockMade = [r \in Relays |-> 0]
    /\ chanRead = [r \in Relays |-> <<>>]
    /\ sockRead = [r \in Relays |-> <<>>]
    /\ chanOut = [r \in Relays |-> <<>>]
    /\ sockOut = [r \in Relays |-> <<>>]
    /\ chanClosed = [r \in Relays |-> 0]
    /\ sockClosed = [r \in Relays |-> 0]

\* The tunnel at work on idle connections: the acceptor hands every inbound
\* channel to a handler thread, the handlers run beside it and beside each
\* other, the destination may close a connection, the server may go away
\* (which closes the channels of the transport) and remove() may be called.
\* No end delivers bytes: SpecRelay covers those.
TunnelNext ==
    \/ \E s \in Sessions : AccThread(s) \/ PeerShutdown(s)
    \/ \E r \in Relays : HandlerThread(r)
    \/ \E r \in Relays : SockShut(r)
    \/ \E c \in Callers : Remove(c)

SpecTunnel == InitTunnel /\ [][TunnelNext]_vars

\* The same with two tunnels up: each acceptor hands its channels to
\* handler threads, remove() pops the tunnels one by one.
SpecTwoTunnels == InitTwo /\ [][TunnelNext]_vars

\* ------------------------------------------------------------ properties
RangeSize == bind_port_max - bind_port_min + 1

\* [preferred, ..., max, min, ..., preferred - 1]
Candidates ==
    [i \in 1..RangeSize |->
        IF bind_port_try + i - 1 <= bind_port_max
        THEN bind_port_try + i - 1
        ELSE bind_port_min + (i - 1) - (bind_port_max - bind_port_try + 1)]

IsPrefix(a, b) == Len(a) <= Len(b) /\ \A i \in 1..Len(a) : a[i] = b[i]

NoRepeat(a) == \A i, j \in 1..Len(a) : i # j => a[i] # a[j]

\* C1: the binder's requests are a prefix of [preferred..max, min..preferred-1];
\* it stops at the first accepted candidate, which becomes the bound port, and
\* it reports the range exhausted only after all max-min+1 ports were requested.
C1_ProbeOrder ==
    \A c \in Callers :
        /\ IsPrefix(probes[c], Candidates)
        /\ cpc[c] = "start" =>
              /\ probes[c] # <<>>
              /\ bind_port_now = probes[c][Len(probes[c])]
              /\ bind_port_now \notin unavail[c]
              /\ \A i \in 1..(Len(probes[c]) - 1) : probes[c][i] \in unavail[c]
        /\ result[c] = "exhausted" => Len(probes[c]) = RangeSize

\* C2: when the transport rejects every port of the range, the binder ends
\* with the exhausted-range error after at most max-min+1 requests and never
\* requests a port twice.
C2_BinderTerminates ==
    \A c \in Callers :
        unavail[c] = bind_port_min..bind_port_max =>
            /\ NoRepeat(probes[c])
            /\ Len(probes[c]) <= RangeSize

\* C3: after a failed create the stack is what it was before the call and the
\* transport the call opened is closed.
C3_FailedCreateClean ==
    \A c \in Callers :
        result[c] \in Failed =>
            /\ _client_list = stack0[c]
            /\ _client_curr = Len(stack0[c]) - 1
            /\ ~is_alive(client[c])

\* C4: no remote-bind request is issued before the destination check of the
\* same create has succeeded; a create that failed on an unreachable
\* destination has issued no request and started no acceptor.
C4_PreflightOrder ==
    \A c \in Callers :
        /\ probes[c] # <<>> => tested[c]
        /\ cpc[c] \in {"bind", "start", "wait"} => tested[c]
        /\ result[c] = "unreachable" =>
              /\ probes[c] = <<>>
              /\ apc[client[c]] = "none"

\* a create has failed on an unreachable destination
C4_Witness ==
    \E c \in Callers :
        /\ result[c] = "unreachable"
        /\ is_alive(client[c])
        /\ probes[c] = <<>>

\* C5: an acceptor that took the peer-shutdown path has had its own session
\* removed from the stack, once, and has called the failure callback once.
C5_PeerShutdownOnce ==
    \A s \in Sessions :
        /\ (peerPath[s] /\ apc[s] \in {"callback", "stopped"}) =>
              /\ s \notin Range(_client_list)
              /\ popCount[s] = 1
        /\ (peerPath[s] /\ apc[s] = "stopped") => cbCount[s] = 1

\* C6: once the stop flag is true for a session whose acceptor is running, no
\* step makes it false again.
C6_StopMonotonic ==
    [][\A s \in Sessions : (AcceptorRunning(s) /\ stop) => stop']_vars

\* C7: remove() on a non-empty stack pops the top session and closes its
\* transport, and leaves the stop flag, the transport and the acceptor of
\* every other session as they were.
C7_RemoveFrame ==
    [][\A c \in Callers :
          (Remove(c) /\ client_count > 0) =>
              LET top == _client_list[Len(_client_list)]
              IN /\ _client_list' = Take(_client_list, Len(_client_list) - 1)
                 /\ ctrans[top] # None => transport'[ctrans[top]] = "closed"
                 /\ \A s \in Sessions \ {top} :
                       AcceptorRunning(s) =>
                           /\ stop' = stop
                           /\ transport'[atrans[s]] = transport[atrans[s]]
                           /\ apc'[s] = apc[s]]_vars

C9_RelayCleanup ==
    \A r \in Relays :
        rpc[r] \in {"done", "raised"} => chanClosed[r] = 1 /\ sockClosed[r] = 1

\* C10: what the relay has written to the socket is what it has read from the
\* channel, and what it has written to the channel is what it has read from
\* the socket.
C10_ByteFidelity ==
    \A r \in Relays :
        rpc[r] \in {"select", "check", "sock", "chan", "close", "done"} =>
            /\ sockOut[r] = chanRead[r]
            /\ chanOut[r] = sockRead[r]


\* C11: relays are independent. Every channel the acceptor hands over starts
\* a handler thread of its own, and no step of one relay (a failed connect,
\* a failing recv or send, a socket closed by the destination, its cleanup)
\* ends or closes another relay, moves the acceptor, or changes the stop
\* flag or the client stack.
C11_RelayIndependence ==
    [][/\ \A s \in Sessions :
            AccSpawn(s) =>
                /\ rpc[chan[s]] = "none"
                /\ \A q \in Relays \ {chan[s]} : rpc'[q] = rpc[q]
       /\ \A r \in Relays :
            (HandlerThread(r) \/ SockShut(r)) =>
                /\ \A q \in Relays \ {r} :
                      /\ rpc'[q] = rpc[q]
                      /\ chanClosed'[q] = chanClosed[q]
                      /\ sockClosed'[q] = sockClosed[q]
                /\ apc' = apc
                /\ stop' = stop
                /\ _client_list' = _client_list
                /\ _client_curr' = _client_curr]_vars

\* two relays of one session, one ended by a failure while the other still
\* copies and the acceptor still listens
C11_Witness ==
    \E r, q \in Relays :
        /\ r # q
        /\ rsess[r] # None
        /\ rsess[r] = rsess[q]
        /\ rpc[r] = "raised"
        /\ RelayRunning(q)
        /\ AcceptorRunning(rsess[r])
        /\ ~stop


\* a session whose remote bind was accepted: its create() is past the binder
\* or has started its acceptor
BindSucceeded(s) ==
    \/ apc[s] # "none"
    \/ \E c \in Callers : client[c] = s /\ cpc[c] \in {"start", "wait"}

\* C12: the bound port is stable. Once the bind of a session has succeeded,
\* the port recorded for it (bind_port_now, the only record the manager
\* keeps) does not change for as long as the session stays on the stack,
\* whatever create() and remove() calls follow.
C12_BoundPortStable ==
    [][\A s \in Sessions :
          (/\ BindSucceeded(s)
           /\ s \in Range(_client_list)
           /\ s \in Range(_client_list'))
          => bind_port_now' = bind_port_now]_vars


\* C13: when create() returns. A successful create(daemon=True) has returned
\* only once the acceptor has set the event or the bounded wait has run
\* out, and its return leaves the acceptor thread, the stop flag and the
\* transports as they are; a successful create(daemon=False) has returned
\* only once its acceptor thread has ended.
C13_ReturnTiming ==
    /\ [](\A c \in Callers :
            (cpc[c] = "idle" /\ result[c] = "ok") =>
                IF daemon[c]
                THEN event[client[c]] = "set" \/ timedOut[c]
                ELSE apc[client[c]] = "stopped")
    /\ [][\A c \in Callers :
            (cpc[c] = "wait" /\ cpc'[c] = "idle" /\ result'[c] = "ok") =>
                /\ apc' = apc
                /\ stop' = stop
                /\ transport' = transport
                /\ _client_list' = _client_list]_vars

\* a create(daemon=False) that has returned, its acceptor having ended on
\* the server's shutdown
C13_Witness ==
    \E c \in Callers :
        /\ cpc[c] = "idle"
        /\ result[c] = "ok"
        /\ ~daemon[c]
        /\ apc[client[c]] = "stopped"
        /\ peerPath[client[c]]

\* a create(daemon=True) that has returned on the event while its acceptor
\* is listening
C13_DetachedRunning ==
    \E c \in Callers :
        /\ cpc[c] = "idle"
        /\ result[c] = "ok"
        /\ daemon[c]
        /\ ~timedOut[c]
        /\ apc[client[c]] \in {"accept", "check_stop", "check_alive"}


\* C14: an acceptor unwinds only its own session. In the remove() it calls on
\* the server's shutdown, the client popped from the stack is the one the
\* acceptor was started for and no transport but its own is closed.
C14_UnwindsOwnSession ==
    [][\A s \in Sessions :
          AccRemove(s) =>
              \A x \in Sessions :
                  /\ popCount'[x] # popCount[x] => x = s
                  /\ transport'[x] # transport[x] => x = atrans[s]]_vars


\* C15: a local shutdown is never reported as the server's. While the server
\* never closes a connection, an acceptor whose session was removed locally
\* ends without taking the peer-shutdown path: it does not call remove()
\* again and does not call the failure callback.
C15_LocalNotPeer ==
    \A s \in Sessions :
        popCount[s] > 0 => (~peerPath[s] /\ cbCount[s] = 0)


\* C16: push and pop of the client stack are one critical section. Outside a
\* push in progress the current index is the number of stacked clients
\* minus one, and no remove(), of the caller or of an acceptor thread, finds
\* a client on the stack that client_remove() does not hand out.
C16_StackAtomic ==
    /\ [](\A c \in Callers :
            cpc[c] # "push" => _client_curr = Len(_client_list) - 1)
    /\ [][/\ \A s \in Sessions : AccRemove(s) => ~RemoveRaises
          /\ \A c \in Callers : Remove(c) => ~RemoveRaises]_vars


\* C17 over two create() calls (SpecPairFair): once remove() has popped a
\* session whose acceptor thread is running, that thread ends, whatever
\* create() and remove() calls are made in between.
C17_AcceptorStops ==
    \A s \in Sessions :
        (popCount[s] > 0 /\ AcceptorRunning(s)) ~> (apc[s] = "stopped")

\* C17: the acceptor stops within a poll. Once remove() has popped a
\* session, the stop check of its acceptor ends the thread, or else the
\* transport it listens on is closed, so that the liveness check that
\* follows ends it.
C17_StopsWithinPoll ==
    [][\A s \in Sessions :
          (popCount[s] > 0 /\ AccCheckStop(s) /\ apc'[s] # "stopped")
              => ~is_alive(atrans[s])]_vars


\* C18: a relay stops after a stop. Once remove() has set the stop flag, a
\* relay in its copy loop is never left waiting for its peers: its thread
\* can take its next step towards the stop check and the cleanup even if no
\* end delivers anything more.
C18_RelayStops ==
    \A r \in Relays :
        (stop /\ RelayRunning(r)) => ENABLED HandlerThread(r)


\* C19: a bind request that fails for another reason than the port being
\* unavailable ends the binder. The binder asks for a further port only
\* after the server denied the last one as unavailable, it reports the
\* range as used up only if every port it asked for was unavailable, and
\* the request that raises another error ends the call with bind_port_now
\* as it was.
C19_BinderFailsFast ==
    /\ [](\A c \in Callers :
            (cpc[c] = "bind" \/ (cpc[c] = "idle" /\ result[c] = "exhausted")) =>
                \A i \in 1..Len(probes[c]) : probes[c][i] \in unavail[c])
    /\ [][\A c \in Callers :
            (cpc[c] = "bind" /\ result'[c] = "bind_error") =>
                /\ cpc'[c] = "idle"
                /\ bind_port_now' = bind_port_now]_vars

\* C20: no accepted channel is leaked. When an acceptor thread has ended,
\* the last channel accept() returned to it has been handed to a handler
\* thread, or is closed (by the acceptor, or with its transport).
C20_NoChannelLeak ==
    \A s \in Sessions :
        (apc[s] = "stopped" /\ chan[s] # None) =>
            \/ rpc[chan[s]] # "none"
            \/ chanClosed[chan[s]] > 0
            \/ ~is_alive(atrans[s])

====
